---- MODULE Spec2Model ----
\* Facette backend: the Catalog (origins / sources / metrics registry and its
\* refresh cycle), the RRD connector's discovery walk with its channel
\* handoff, and the RRD query engine (rrdGetData).
EXTENDS Integers, Sequences, FiniteSets, TLC

VARIABLES
    Origins,    \* Catalog.Origins: name -> Origin
    Updated,    \* Catalog.Updated
    clock,      \* the wall clock read by time.Now()
    update,     \* frame of the running Catalog.Update (err, success, range position)
    walk,       \* frame of the running RRDConnectorHandler.Update / walkFunc
    logged,     \* lines written by log.Println during the caller's current or last operation
    op,         \* the caller's current or last catalog operation and what it returned
    request,    \* the last query call made on a connector (GetPlots / GetValue)
    reply       \* what that call returned and what it asked of the storage engine

vars == <<Origins, Updated, clock, update, walk, logged, op, request, reply>>

----------------------------------------------------------------------------
\* Bounds

MaxUpdates == 2     \* Catalog.Update passes per behaviour
MaxWalk == 2        \* directory entries visited per walk

----------------------------------------------------------------------------
\* Values

EmptyMap == [k \in {} |-> 0]

MapPut(m, k, v) == [x \in (DOMAIN m) \cup {k} |-> IF x = k THEN v ELSE m[x]]

Err(msg, arg) == [msg |-> msg, arg |-> arg]

NoErr == Err("", "")

NilMetric == [nil |-> TRUE]

Panic == [panic |-> TRUE]

OriginNames == {"o1", "o2"}

\* A pattern is modelled by the names of its capture groups 1..n; a relative
\* file path by its segments; group i captures segment i.
PatSourceMetric == <<"source", "metric">>
PatMetricSource == <<"metric", "source">>
PatNoSource == <<"metric">>
PatNoMetric == <<"source">>
PatOtherName == <<"source", "metric", "host">>
PatUnnamed == <<"", "source", "metric">>

Patterns == {PatSourceMetric, PatMetricSource, PatNoSource, PatNoMetric,
             PatOtherName, PatUnnamed}

ConfigOf(keys, t, pat) ==
    [k \in keys |-> IF k = "type" THEN t ELSE IF k = "path" THEN "/data" ELSE pat]

Configs ==
    {ConfigOf({"type", "path", "pattern"}, "rrd", pat) : pat \in Patterns}
    \cup {ConfigOf({"path", "pattern"}, "rrd", PatSourceMetric),
          ConfigOf({"type", "path", "pattern"}, "bogus", PatSourceMetric),
          ConfigOf({"type", "pattern"}, "rrd", PatSourceMetric),
          ConfigOf({"type", "path"}, "rrd", PatSourceMetric)}

\* Entries the directory walk can hand to walkFunc.
RelPaths == {<<"h1", "cpu">>, <<"stray">>, <<"rack", "h1", "cpu">>}

InfoOutcomes == {"error", "noindex", "a", "ab"}

DsIndex(info) == IF info = "a" THEN {"a"} ELSE IF info = "ab" THEN {"a", "b"} ELSE {}

DirEntries ==
    {[kind |-> "walkerr", rel |-> <<>>, info |-> "error"],
     [kind |-> "dir", rel |-> <<>>, info |-> "noindex"]}
    \cup {[kind |-> "file", rel |-> r, info |-> i] : r \in RelPaths, i \in InfoOutcomes}

ErrWalk == Err("walk error", "")
ErrInfo == Err("rrd info error", "")

----------------------------------------------------------------------------
\* Connector registry and constructor

RRDConstructor(origin, config) ==
    IF "path" \notin DOMAIN config
    THEN [err |-> Err("missing mandatory connector setting", "path"), origin |-> origin]
    ELSE IF "pattern" \notin DOMAIN config
    THEN [err |-> Err("missing mandatory connector setting", "pattern"), origin |-> origin]
    ELSE [err |-> NoErr,
          origin |-> [origin EXCEPT !.Connector =
                         [set |-> TRUE, Path |-> config["path"],
                          Pattern |-> config["pattern"], metrics |-> EmptyMap]]]

BackendHandlers == {"rrd"}

NewOrigin(name) ==
    [Name |-> name, Sources |-> EmptyMap,
     Connector |-> [set |-> FALSE, Path |-> "", Pattern |-> <<>>, metrics |-> EmptyMap],
     inputChan |-> [made |-> FALSE, closed |-> 0],
     consumer |-> "none"]

----------------------------------------------------------------------------
\* Catalog.AddOrigin

AddOriginInsertFirst(origins, name, config) ==
    LET origin == NewOrigin(name) IN
    IF "type" \notin DOMAIN config
    THEN [err |-> Err("missing backend type", ""), ctor |-> FALSE,
          origins |-> MapPut(origins, name, origin)]
    ELSE IF config["type"] \notin BackendHandlers
    THEN [err |-> Err("unknown backend type", config["type"]), ctor |-> FALSE,
          origins |-> MapPut(origins, name, origin)]
    ELSE LET r == RRDConstructor(origin, config) IN
         [err |-> r.err, ctor |-> TRUE, origins |-> MapPut(origins, name, r.origin)]

AddOriginResult(origins, name, config) ==
    LET origin == NewOrigin(name) IN
    IF "type" \notin DOMAIN config
    THEN [err |-> Err("missing backend type", ""), ctor |-> FALSE, origins |-> origins]
    ELSE IF config["type"] \notin BackendHandlers
    THEN [err |-> Err("unknown backend type", config["type"]), ctor |-> FALSE,
          origins |-> origins]
    ELSE LET r == RRDConstructor(origin, config) IN
         IF r.err # NoErr
         THEN [err |-> r.err, ctor |-> TRUE, origins |-> origins]
         ELSE [err |-> NoErr, ctor |-> TRUE, origins |-> MapPut(origins, name, r.origin)]

----------------------------------------------------------------------------
\* Catalog.MetricExists / Catalog.GetMetric

MetricExistsNoNameCheck(origins, origin, source, name) ==
    IF origin \in DOMAIN origins
    THEN source \in DOMAIN origins[origin].Sources
    ELSE FALSE

MetricExists(origins, origin, source, name) ==
    IF origin \in DOMAIN origins
    THEN IF source \in DOMAIN origins[origin].Sources
         THEN name \in DOMAIN origins[origin].Sources[source].Metrics
         ELSE FALSE
    ELSE FALSE

\* catalog.Origins[origin].Sources[source].Metrics[name]: a missing key of the
\* outer maps yields a nil pointer whose dereference panics; a missing key of
\* the innermost map yields the nil Metric.
GetMetric(origins, origin, source, name) ==
    IF ~MetricExists(origins, origin, source, name)
    THEN NilMetric
    ELSE IF origin \notin DOMAIN origins THEN Panic
    ELSE IF source \notin DOMAIN origins[origin].Sources THEN Panic
    ELSE IF name \notin DOMAIN origins[origin].Sources[source].Metrics THEN NilMetric
    ELSE origins[origin].Sources[source].Metrics[name]

----------------------------------------------------------------------------
\* Catalog.Update: loop body and epilogue

InfoLine(text) == [level |-> "INFO", msg |-> text, arg |-> ""]

ErrorLine(e) == [level |-> "ERROR", msg |-> e.msg, arg |-> e.arg]

IdleUpdate == [pc |-> "idle", err |-> NoErr, success |-> TRUE, todo |-> {}, called |-> <<>>]

\* One iteration of `for _, origin := range catalog.Origins` once origin.Update()
\* has returned e.
LoopBodyBreak(frame, o, e) ==
    [frame EXCEPT !.err = e,
                  !.success = IF e # NoErr THEN FALSE ELSE @,
                  !.todo = IF e # NoErr THEN {} ELSE @ \ {o}]

LoopBody(frame, o, e) ==
    [frame EXCEPT !.err = e,
                  !.success = IF e # NoErr THEN FALSE ELSE @,
                  !.todo = @ \ {o}]

LoopLog(lines, e) == IF e # NoErr THEN Append(lines, ErrorLine(e)) ELSE lines

UpdateEpilogueAlways(frame, updated, now) ==
    IF ~frame.success
    THEN [ret |-> frame.err, Updated |-> now, line |-> InfoLine("catalog update failed")]
    ELSE [ret |-> NoErr, Updated |-> now, line |-> InfoLine("catalog update completed")]

UpdateEpilogue(frame, updated, now) ==
    IF ~frame.success
    THEN [ret |-> frame.err, Updated |-> updated, line |-> InfoLine("catalog update failed")]
    ELSE [ret |-> NoErr, Updated |-> now, line |-> InfoLine("catalog update completed")]

----------------------------------------------------------------------------
\* RRDConnectorHandler.Update: pattern validation and walkFunc

SubexpNames(pattern) == <<"">> \o pattern

FindStringSubmatch(pattern, rel) ==
    IF Len(rel) = Len(pattern) THEN <<"whole">> \o rel ELSE <<>>

\* Go slices are indexed from 0.
At(s, i) == s[i + 1]

MinOf(S) == CHOOSE x \in S : \A y \in S : x <= y

ValidatePatternLax(pattern) ==
    LET names == SubexpNames(pattern)
        groups == {names[i] : i \in 1..Len(names)}
    IN  IF "source" \notin groups THEN Err("missing pattern keyword", "source")
        ELSE IF "metric" \notin groups THEN Err("missing pattern keyword", "metric")
        ELSE NoErr

ValidatePattern(pattern) ==
    LET names == SubexpNames(pattern)
        bad == {i \in 1..Len(names) : names[i] \notin {"", "source", "metric"}}
        groups == {names[i] : i \in 1..Len(names)}
    IN  IF bad # {} THEN Err("invalid pattern keyword", names[MinOf(bad)])
        ELSE IF "source" \notin groups THEN Err("missing pattern keyword", "source")
        ELSE IF "metric" \notin groups THEN Err("missing pattern keyword", "metric")
        ELSE NoErr

\* The frame of the connector's Update; sent and received list the pairs the
\* walk has put on the channel and the pairs taken from it.
IdleWalk ==
    [pc |-> "idle", origin |-> "", n |-> 0, source |-> "", metric |-> "",
     rel |-> <<>>, pending |-> {}, dsName |-> "", sent |-> <<>>, received |-> <<>>]

\* source / metric as walkFunc picks them from the submatch.
PickSource(pattern, submatch) ==
    IF At(SubexpNames(pattern), 1) = "source" THEN At(submatch, 1) ELSE At(submatch, 2)

PickMetric(pattern, submatch) ==
    IF At(SubexpNames(pattern), 1) = "source" THEN At(submatch, 2) ELSE At(submatch, 1)

\* handler.metrics[source] = make(...) when absent.
EnsureSource(metrics, source) ==
    IF source \in DOMAIN metrics THEN metrics ELSE MapPut(metrics, source, EmptyMap)

RRDMetric(dsName, path, rel) == [Dataset |-> dsName, FilePath |-> <<path>> \o rel]

MetricName(metric, dsName) == <<metric, dsName>>

CloseChanNot(chan) == chan

\* close(handler.origin.inputChan)
CloseChan(chan) == [chan EXCEPT !.closed = @ + 1]

----------------------------------------------------------------------------
\* Origin.Update and the consumer of Origin.inputChan

OriginUpdateBegin(origin) ==
    [origin EXCEPT !.inputChan = [made |-> TRUE, closed |-> 0], !.consumer = "draining"]

AppendMetric(sources, source, name) ==
    LET src == IF source \in DOMAIN sources THEN sources[source]
               ELSE [Name |-> source, Metrics |-> EmptyMap]
        metric == [Name |-> name, source |-> source, OriginalName |-> name]
    IN  MapPut(sources, source, [src EXCEPT !.Metrics = MapPut(@, name, metric)])

NoRequest == [fn |-> "none"]

NoReply == [fn |-> "none"]

----------------------------------------------------------------------------
\* Initial state: NewCatalog

Init ==
    /\ Origins = EmptyMap
    /\ Updated = 0
    /\ clock = 0
    /\ update = IdleUpdate
    /\ walk = IdleWalk
    /\ logged = <<>>
    /\ op = [name |-> "NewCatalog"]
    /\ request = NoRequest
    /\ reply = NoReply

SourceArgs == {"h1", "cpu"}

NameArgs == {<<"cpu", "a">>, <<"cpu", "b">>, <<"h1", "a">>}

----------------------------------------------------------------------------
\* Catalog operations

\* The catalog is set up by the single thread of control that also runs
\* Catalog.Update, so origins are not added while a pass is ranging over them.
AddOrigin(name, config) ==
    /\ update.pc = "idle"
    /\ LET r == AddOriginResult(Origins, name, config) IN
        /\ Origins' = r.origins
        /\ op' = [name |-> "AddOrigin", err |-> r.err, ctor |-> r.ctor]
    /\ logged' = <<>>
    /\ UNCHANGED <<Updated, clock, update, walk, request, reply>>

GetMetricCall(origin, source, name) ==
    /\ update.pc = "idle"
    /\ op' = [name |-> "GetMetric", metric |-> GetMetric(Origins, origin, source, name)]
    /\ logged' = <<>>
    /\ UNCHANGED <<Origins, Updated, clock, update, walk, request, reply>>

MetricExistsCall(origin, source, name) ==
    /\ update.pc = "idle"
    /\ op' = [name |-> "MetricExists", ok |-> MetricExists(Origins, origin, source, name)]
    /\ logged' = <<>>
    /\ UNCHANGED <<Origins, Updated, clock, update, walk, request, reply>>

CatalogUpdateStart ==
    /\ update.pc = "idle"
    /\ clock < MaxUpdates
    /\ update' = [pc |-> "range", err |-> NoErr, success |-> TRUE,
                  todo |-> DOMAIN Origins, called |-> <<>>]
    /\ logged' = <<InfoLine("catalog update started")>>
    /\ op' = [name |-> "Catalog.Update", returned |-> FALSE]
    /\ UNCHANGED <<Origins, Updated, clock, walk, request, reply>>

\* The range picks the next origin (map iteration order is unspecified) and
\* calls origin.Update(), which opens the channel, starts the consumer and
\* enters the connector's Update up to the end of pattern validation.
OriginUpdate(o) ==
    /\ update.pc = "range"
    /\ walk.pc = "idle"
    /\ o \in update.todo
    /\ LET origin == OriginUpdateBegin(Origins[o])
           e == ValidatePattern(origin.Connector.Pattern)
           frame == [update EXCEPT !.called = Append(@, o)]
       IN  /\ Origins' = [Origins EXCEPT ![o] = origin]
           /\ IF e # NoErr
              THEN /\ update' = LoopBody(frame, o, e)
                   /\ logged' = LoopLog(logged, e)
                   /\ walk' = walk
              ELSE /\ update' = frame
                   /\ logged' = logged
                   /\ walk' = [IdleWalk EXCEPT !.pc = "walk", !.origin = o]
    /\ UNCHANGED <<Updated, clock, op, request, reply>>

WalkAbortRollback(metrics, e) ==
    /\ Origins' = [Origins EXCEPT ![walk.origin].Connector.metrics = EmptyMap]
    /\ update' = LoopBody(update, walk.origin, e)
    /\ logged' = LoopLog(logged, e)
    /\ walk' = IdleWalk

\* The walk aborts with e: the connector's Update returns e (line 236) and so
\* does origin.Update().
WalkAbort(metrics, e) ==
    /\ Origins' = [Origins EXCEPT ![walk.origin].Connector.metrics = metrics]
    /\ update' = LoopBody(update, walk.origin, e)
    /\ logged' = LoopLog(logged, e)
    /\ walk' = IdleWalk

WalkEntry(entry) ==
    /\ walk.pc = "walk"
    /\ walk.n < MaxWalk
    /\ LET h == Origins[walk.origin].Connector
           submatch == FindStringSubmatch(h.Pattern, entry.rel)
           source == PickSource(h.Pattern, submatch)
           metric == PickMetric(h.Pattern, submatch)
           next == [walk EXCEPT !.n = @ + 1]
       IN  IF entry.kind = "walkerr" THEN WalkAbort(h.metrics, ErrWalk)
           ELSE IF entry.kind = "dir" \/ Len(submatch) = 0
           THEN /\ walk' = next
                /\ UNCHANGED <<Origins, update, logged>>
           ELSE IF entry.info = "error"
           THEN WalkAbort(EnsureSource(h.metrics, source), ErrInfo)
           ELSE /\ Origins' = [Origins EXCEPT ![walk.origin].Connector.metrics =
                                  EnsureSource(h.metrics, source)]
                /\ walk' = IF DsIndex(entry.info) = {} THEN next
                           ELSE [walk EXCEPT !.pc = "send", !.source = source,
                                             !.metric = metric, !.rel = entry.rel,
                                             !.pending = DsIndex(entry.info)]
                /\ UNCHANGED <<update, logged>>
    /\ UNCHANGED <<Updated, clock, op, request, reply>>

\* The range over info["ds.index"] picks a dataset and the walk offers its
\* pair on the channel, handler.origin.inputChan <- {source, metricName}
\* (line 226), where it blocks until the consumer takes it.
Send ==
    /\ walk.pc = "send"
    /\ \E dsName \in walk.pending :
        walk' = [walk EXCEPT !.pc = "sending", !.dsName = dsName,
                             !.sent = Append(@, <<walk.source, MetricName(walk.metric, dsName)>>)]
    /\ UNCHANGED <<Origins, Updated, clock, update, logged, op, request, reply>>

\* The consumer's receive meets the blocked send: it takes the pair and merges
\* it into the origin's tree, and the walk goes on to line 227.
Receive ==
    /\ walk.pc = "sending"
    /\ Origins[walk.origin].consumer = "draining"
    /\ LET pair == walk.sent[Len(walk.received) + 1]
       IN  /\ Origins' = [Origins EXCEPT ![walk.origin].Sources = AppendMetric(@, pair[1], pair[2])]
           /\ walk' = [walk EXCEPT !.pc = "record", !.received = Append(@, pair)]
    /\ UNCHANGED <<Updated, clock, update, logged, op, request, reply>>

\* handler.metrics[source][metricName] = &RRDMetric{...} (line 227)
Record ==
    /\ walk.pc = "record"
    /\ LET h == Origins[walk.origin].Connector
           name == MetricName(walk.metric, walk.dsName)
           rest == walk.pending \ {walk.dsName}
       IN  /\ Origins' = [Origins EXCEPT ![walk.origin].Connector.metrics[walk.source] =
                              MapPut(@, name, RRDMetric(walk.dsName, h.Path, walk.rel))]
           /\ walk' = IF rest = {}
                      THEN [IdleWalk EXCEPT !.pc = "walk", !.origin = walk.origin,
                                            !.n = walk.n + 1, !.sent = walk.sent,
                                            !.received = walk.received]
                      ELSE [walk EXCEPT !.pc = "send", !.pending = rest, !.dsName = ""]
    /\ UNCHANGED <<Updated, clock, update, logged, op, request, reply>>

\* utils.WalkDir returns nil: close the channel and return nil (lines 239-242).
WalkEnd ==
    /\ walk.pc = "walk"
    /\ Origins' = [Origins EXCEPT ![walk.origin].inputChan = CloseChan(@)]
    /\ update' = LoopBody(update, walk.origin, NoErr)
    /\ logged' = LoopLog(logged, NoErr)
    /\ walk' = IdleWalk
    /\ UNCHANGED <<Updated, clock, op, request, reply>>

\* The consumer's receive on a closed channel ends its loop.
ConsumerDone(o) ==
    /\ o \in DOMAIN Origins
    /\ Origins[o].consumer = "draining"
    /\ Origins[o].inputChan.closed > 0
    /\ Origins' = [Origins EXCEPT ![o].consumer = "done"]
    /\ UNCHANGED <<Updated, clock, update, walk, logged, op, request, reply>>

CatalogUpdateFinish ==
    /\ update.pc = "range"
    /\ update.todo = {}
    /\ walk.pc = "idle"
    /\ LET r == UpdateEpilogue(update, Updated, clock + 1) IN
        /\ Updated' = r.Updated
        /\ logged' = Append(logged, r.line)
        /\ op' = [name |-> "Catalog.Update", returned |-> TRUE, err |-> r.ret]
    /\ clock' = clock + 1
    /\ update' = IdleUpdate
    /\ UNCHANGED <<Origins, walk, request, reply>>

Next ==
    \/ \E name \in OriginNames, config \in Configs : AddOrigin(name, config)
    \/ \E o \in OriginNames \cup {"ghost"}, s \in SourceArgs, n \in NameArgs :
           GetMetricCall(o, s, n)
    \/ \E o \in OriginNames \cup {"ghost"}, s \in SourceArgs, n \in NameArgs :
           MetricExistsCall(o, s, n)
    \/ CatalogUpdateStart
    \/ \E o \in OriginNames : OriginUpdate(o)
    \/ \E entry \in DirEntries : WalkEntry(entry)
    \/ Send
    \/ Receive
    \/ Record
    \/ WalkEnd
    \/ \E o \in OriginNames : ConsumerDone(o)
    \/ CatalogUpdateFinish

Spec == Init /\ [][Next]_vars

----------------------------------------------------------------------------
\* Properties of the catalog and of discovery

ErrorLines(lines) == SelectSeq(lines, LAMBDA l : l.level = "ERROR")

UpdateReturned == op.name = "Catalog.Update" /\ op.returned

\* The step in which Catalog.Update returns.
UpdateReturns == update.pc = "range" /\ update'.pc = "idle"

\* C1: Catalog.Updated changes only in the step in which a Catalog.Update
\* returns after every origin's Update returned no error; a pass in which some
\* origin failed leaves Updated as it was, and no other operation changes it.
C1_UpdatedOnlyOnCleanPass ==
    [][/\ Updated' # Updated =>
            /\ UpdateReturns
            /\ ErrorLines(logged) = <<>>
            /\ {update.called[i] : i \in 1..Len(update.called)} = DOMAIN Origins
       /\ (UpdateReturns /\ ErrorLines(logged) # <<>>) => Updated' = Updated]_vars

\* A second pass failed after a first clean pass: Updated still holds the
\* time of the first.
C1_Witness ==
    /\ UpdateReturned
    /\ ErrorLines(logged) # <<>>
    /\ Updated = 1
    /\ clock = 2

\* C2: whenever an origin's Update failed during Catalog.Update, Catalog.Update
\* returns a non-nil error, the one of the last origin that failed.
C2_ReturnsLastError ==
    (UpdateReturned /\ ErrorLines(logged) # <<>>) =>
        /\ op.err # NoErr
        /\ ErrorLine(op.err) = ErrorLines(logged)[Len(ErrorLines(logged))]

\* C3: every Catalog.Update calls Update on every origin of the catalog exactly
\* once, whatever the number of origins that failed earlier in the pass.
C3_EveryOriginOnce ==
    [][UpdateReturns =>
          /\ Len(update.called) = Cardinality(DOMAIN Origins)
          /\ \A o \in DOMAIN Origins :
                Cardinality({i \in 1..Len(update.called) : update.called[i] = o}) = 1]_vars

\* Both origins were called although the first one called had failed.
C3_Witness ==
    /\ update.pc = "range"
    /\ update.todo = {}
    /\ Len(update.called) = 2
    /\ Len(ErrorLines(logged)) = 2

ConnectorUpdateRunning(o) == walk.pc # "idle" /\ walk.origin = o

\* C4: every call of the connector's Update closes the origin's discovery
\* channel exactly once, on every exit path.
C4_ClosedOnEveryExit ==
    \A o \in DOMAIN Origins :
        (Origins[o].inputChan.made /\ ~ConnectorUpdateRunning(o)) =>
            Origins[o].inputChan.closed = 1

\* C5: a failing AddOrigin leaves the Origins map as it was, and the
\* constructor is not invoked when the type is missing or not registered.
C5_FailedAddOriginNoChange ==
    [][(op' # op /\ op'.name = "AddOrigin" /\ op'.err # NoErr) =>
          /\ Origins' = Origins
          /\ op'.err.msg \in {"missing backend type", "unknown backend type"} => ~op'.ctor]_vars

\* A constructor error with both names already in the catalog.
C5_Witness ==
    /\ op.name = "AddOrigin"
    /\ op.err.msg = "missing mandatory connector setting"
    /\ op.ctor
    /\ DOMAIN Origins = OriginNames

KnownSources(o) == IF o \in DOMAIN Origins THEN DOMAIN Origins[o].Sources ELSE {}

KnownNames(o, s) ==
    IF s \in KnownSources(o) THEN DOMAIN Origins[o].Sources[s].Metrics ELSE {}

\* C6: MetricExists is true exactly when GetMetric is non-nil, and both are
\* false / nil, without a panic, for an unknown origin, source or name.
C6_ExistsIffGetMetric ==
    \A o \in OriginNames \cup {"ghost"}, s \in SourceArgs \cup {"nowhere"},
       n \in NameArgs \cup {<<"cpu", "zz">>} :
        /\ MetricExists(Origins, o, s, n) <=> GetMetric(Origins, o, s, n) # NilMetric
        /\ GetMetric(Origins, o, s, n) # Panic
        /\ (o \notin DOMAIN Origins \/ s \notin KnownSources(o) \/ n \notin KnownNames(o, s)) =>
              /\ ~MetricExists(Origins, o, s, n)
              /\ GetMetric(Origins, o, s, n) = NilMetric

\* A discovered metric next to an unknown name under the same known source.
C6_Witness ==
    /\ MetricExists(Origins, "o1", "h1", <<"cpu", "a">>)
    /\ GetMetric(Origins, "o1", "h1", <<"cpu", "a">>).Name = <<"cpu", "a">>
    /\ ~MetricExists(Origins, "o1", "h1", <<"cpu", "b">>)
    /\ "o2" \notin DOMAIN Origins

\* Keywords of a pattern that validation must reject.
Offending(pattern) ==
    LET groups == {pattern[i] : i \in 1..Len(pattern)}
    IN  ({"source", "metric"} \ groups) \cup (groups \ {"", "source", "metric"})

\* The step in which the range calls origin.Update().
OriginUpdateCalled == update.pc = "range" /\ Len(update'.called) = Len(update.called) + 1

\* C10: with a pattern that lacks `source` or `metric` or names another
\* group, the connector's Update returns an error naming an offending keyword,
\* sends nothing and leaves its metric table unchanged; no walk starts.
C10_BadPatternRejected ==
    [][OriginUpdateCalled =>
          LET o == update'.called[Len(update'.called)]
              bad == Offending(Origins[o].Connector.Pattern)
          IN  bad # {} =>
                /\ update'.err # NoErr
                /\ update'.err.arg \in bad
                /\ walk' = IdleWalk
                /\ Origins'[o].Connector.metrics = Origins[o].Connector.metrics
                /\ Origins'[o].Sources = Origins[o].Sources]_vars

\* The connector has just rejected a pattern with a group named `host`.
C10_Witness ==
    /\ update.pc = "range"
    /\ update.err = Err("invalid pattern keyword", "host")
    /\ walk.pc = "idle"

\* The (source, name) keys of a connector's private table and of an origin's
\* Sources tree.
TableEntries(origin) ==
    UNION {{<<s, n>> : n \in DOMAIN origin.Connector.metrics[s]} :
              s \in DOMAIN origin.Connector.metrics}

TreeEntries(origin) ==
    UNION {{<<s, n>> : n \in DOMAIN origin.Sources[s].Metrics} : s \in DOMAIN origin.Sources}

\* C11: discovery is not rolled back. No step of a Catalog.Update, the abort
\* of a walk and the failing return of the pass included, removes an entry
\* from the private table or from the Sources tree of any origin, or changes
\* the handle recorded for an entry: what was recorded before an abort is
\* still there after it, and so is what the other origins discovered.
C11_DiscoveryKept ==
    [][update.pc = "range" =>
          \A o \in DOMAIN Origins :
              /\ o \in DOMAIN Origins'
              /\ TableEntries(Origins[o]) \subseteq TableEntries(Origins'[o])
              /\ TreeEntries(Origins[o]) \subseteq TreeEntries(Origins'[o])
              /\ \A e \in TableEntries(Origins[o]) :
                    Origins'[o].Connector.metrics[e[1]][e[2]] =
                        Origins[o].Connector.metrics[e[1]][e[2]]]_vars

\* A first pass returned the walk error of an origin whose walk had already
\* sent and recorded cpu/a of h1, while the other origin holds its own metric.
C11_Witness ==
    /\ UpdateReturned
    /\ clock = 1
    /\ op.err = ErrWalk
    /\ DOMAIN Origins = OriginNames
    /\ \E o \in OriginNames :
          /\ Origins[o].inputChan.closed = 0
          /\ <<"h1", <<"cpu", "a">>>> \in TableEntries(Origins[o]) \cap TreeEntries(Origins[o])
          /\ \E p \in OriginNames \ {o} :
                /\ Origins[p].inputChan.closed = 1
                /\ TableEntries(Origins[p]) # {}

\* The channel between the walk of origin walk.origin and its consumer.
HandoffInv ==
    /\ Len(walk.received) <= Len(walk.sent)
    /\ Len(walk.sent) <= Len(walk.received) + 1
    /\ SubSeq(walk.sent, 1, Len(walk.received)) = walk.received
    /\ (walk.pc = "sending") <=> (Len(walk.sent) = Len(walk.received) + 1)
    /\ walk.pc # "idle" =>
          /\ Origins[walk.origin].consumer = "draining"
          /\ Origins[walk.origin].inputChan.closed = 0
    /\ \A o \in DOMAIN Origins :
          Origins[o].consumer = "done" =>
              Origins[o].inputChan.closed = 1 /\ ~ConnectorUpdateRunning(o)

\* The step in which a walk ends and the connector's Update returns nil.
WalkSucceeds == walk.pc # "idle" /\ walk'.pc = "idle" /\ update'.err = NoErr

\* C13: the handoff of a successful walk does not deadlock and loses nothing.
\* A send waits only while the consumer is receiving on an open channel; what
\* the consumer has received is what the walk has sent, each pair once and in
\* the order sent, at most the pair being sent missing; the channel is closed
\* when the walk returns, after the last pair was received and merged, and
\* the consumer ends only on that close.
C13_Handoff ==
    /\ []HandoffInv
    /\ [][WalkSucceeds =>
            /\ walk.received = walk.sent
            /\ {walk.sent[i] : i \in 1..Len(walk.sent)} \subseteq TreeEntries(Origins[walk.origin])
            /\ Origins'[walk.origin].inputChan.closed = 1
            /\ Origins'[walk.origin].Sources = Origins[walk.origin].Sources]_vars

\* The walk has ended without error in a first pass, the channel is closed
\* and the consumer has ended after receiving cpu/a and cpu/b of h1.
C13_Witness ==
    /\ clock = 0
    /\ update.pc = "range"
    /\ update.err = NoErr
    /\ walk.pc = "idle"
    /\ \E o \in DOMAIN Origins :
          /\ Origins[o].consumer = "done"
          /\ Origins[o].inputChan.closed = 1
          /\ {<<"h1", <<"cpu", "a">>>>, <<"h1", <<"cpu", "b">>>>} \subseteq TreeEntries(Origins[o])

\* The text a match of pattern on path rel captures in the group called name.
Captured(pattern, rel, name) ==
    LET names == SubexpNames(pattern)
        i == CHOOSE k \in 1..Len(names) - 1 : At(names, k) = name
    IN  At(FindStringSubmatch(pattern, rel), i)

\* C14: for a file whose path matches the accepted pattern, the source is the
\* text captured by the group named `source` and the metric the text captured
\* by the group named `metric`, wherever the groups stand in the pattern.
C14_NamedGroupsPicked ==
    walk.pc \in {"send", "sending", "record"} =>
        LET pattern == Origins[walk.origin].Connector.Pattern IN
        /\ walk.source = Captured(pattern, walk.rel, "source")
        /\ walk.metric = Captured(pattern, walk.rel, "metric")

----------------------------------------------------------------------------
\* Query engine: numbers
\*
\* float64 inputs are held in fixed point: a percentile in units of
\* 1/FPrecision, a Scale in units of 1/ScaleUnit (one more decimal than %f
\* prints). Series values are exact rationals [n, d]; d = 0 is NaN.

MaxSeries == 3      \* series per GroupQuery

FPrecision == 1000000

ScaleUnit == 10 * FPrecision

RECURSIVE GCD(_, _)
GCD(a, b) == IF b = 0 THEN a ELSE GCD(b, a % b)

NaN == [n |-> 0, d |-> 0]

Rat(n, d) == IF d = 0 THEN NaN ELSE LET g == GCD(n, d) IN [n |-> n \div g, d |-> d \div g]

RatAdd(a, b) == IF a.d = 0 \/ b.d = 0 THEN NaN ELSE Rat(a.n * b.d + b.n * a.d, a.d * b.d)

RatMul(a, b) == IF a.d = 0 \/ b.d = 0 THEN NaN ELSE Rat(a.n * b.n, a.d * b.d)

RatDiv(a, b) == IF a.d = 0 \/ b.d = 0 \/ b.n = 0 THEN NaN ELSE Rat(a.n * b.d, a.d * b.n)

\* fmt.Sprintf("%f", scale): six decimals, rounded.
FormatScale(scale) ==
    (scale + (ScaleUnit \div FPrecision) \div 2) \div (ScaleUnit \div FPrecision)

\* "%lf" as printed by the grapher and read back by strconv.ParseFloat.
RoundLf(v) == IF v.d = 0 THEN NaN ELSE Rat((v.n * FPrecision + v.d \div 2) \div v.d, FPrecision)

TwoDigits(k) == IF k < 10 THEN "0" \o ToString(k) ELSE ToString(k)

PercentileLabelTwoDecimals(percentile) ==
    LET hundredths == (percentile + FPrecision \div 200) \div (FPrecision \div 100)
    IN  ToString(hundredths \div 100) \o "." \o TwoDigits(hundredths % 100) \o "th"

\* The label rrdSetGraph prints for a percentile: "%.2fth" when
\* percentile-float64(int(percentile)) != 0, "%.0fth" otherwise.
PercentileLabel(percentile) ==
    LET hundredths == (percentile + FPrecision \div 200) \div (FPrecision \div 100)
    IN  IF percentile - (percentile \div FPrecision) * FPrecision # 0
        THEN ToString(hundredths \div 100) \o "." \o TwoDigits(hundredths % 100) \o "th"
        ELSE ToString(percentile \div FPrecision) \o "th"

----------------------------------------------------------------------------
\* Query engine: the plan handed to the storage engine

OperGroupTypeNone == 0
OperGroupTypeAvg == 1
OperGroupTypeSum == 2

TName(name) == [t |-> "name", v |-> name]
TNum(micro) == [t |-> "num", v |-> micro]
TInt(n) == [t |-> "int", v |-> n]
TOp(o) == [t |-> "op", v |-> o]

Def(name, file, ds) == [op |-> "Def", name |-> name, file |-> file, ds |-> ds, cf |-> "AVERAGE"]
CDef(name, expr) == [op |-> "CDef", name |-> name, expr |-> expr]
VDef(name, expr) == [op |-> "VDef", name |-> name, expr |-> expr]
PrintOp(name, item, label) == [op |-> "Print", name |-> name, item |-> item, label |-> label]
XportDef(name, legend) == [op |-> "XportDef", name |-> name, legend |-> legend]

RECURSIVE Concat(_, _)
Concat(seqs, i) == IF i > Len(seqs) THEN <<>> ELSE seqs[i] \o Concat(seqs, i + 1)

rrdSetGraph(serieName, itemName, percentiles) ==
    <<VDef(serieName \o "-min", <<TName(serieName), TOp("MINIMUM")>>),
      PrintOp(serieName \o "-min", itemName, "min"),
      VDef(serieName \o "-avg", <<TName(serieName), TOp("AVERAGE")>>),
      PrintOp(serieName \o "-avg", itemName, "avg"),
      VDef(serieName \o "-max", <<TName(serieName), TOp("MAXIMUM")>>),
      PrintOp(serieName \o "-max", itemName, "max"),
      VDef(serieName \o "-last", <<TName(serieName), TOp("LAST")>>),
      PrintOp(serieName \o "-last", itemName, "last")>>
    \o Concat([k \in 1..Len(percentiles) |->
                 LET cdef == serieName \o "-cdef" \o ToString(k - 1)
                     vdef == serieName \o "-vdef" \o ToString(k - 1)
                 IN  <<CDef(cdef, <<TName(serieName), TOp("UN"), TInt(0),
                                    TName(serieName), TOp("IF")>>),
                       VDef(vdef, <<TName(cdef), TNum(percentiles[k]), TOp("PERCENT")>>),
                       PrintOp(vdef, itemName, PercentileLabel(percentiles[k]))>>], 1)

CheckSeriesNone(query) == NoErr

CheckSeries(query) ==
    IF Len(query.Series) = 0 THEN Err("group has no series", "") ELSE NoErr

NormalizeTypeAlways(query) == [query EXCEPT !.Type = OperGroupTypeNone]

NormalizeTypeNever(query) == query

NormalizeType(query) ==
    IF query.Type # OperGroupTypeNone /\ Len(query.Series) = 1
    THEN [query EXCEPT !.Type = OperGroupTypeNone]
    ELSE query

NilRRDMetric == [nil |-> TRUE]

\* handler.metrics[serie.Metric.source.Name][serie.Metric.OriginalName]
HandlerMetric(metrics, metric) ==
    IF metric.source \in DOMAIN metrics
    THEN IF metric.OriginalName \in DOMAIN metrics[metric.source]
         THEN metrics[metric.source][metric.OriginalName]
         ELSE NilRRDMetric
    ELSE NilRRDMetric

Contributing(series) == {i \in 1..Len(series) : series[i].Metric # NilMetric}

\* value of `count` when serie i is reached in the loop of the None case
CountAt(series, i) == Cardinality({j \in Contributing(series) : j < i})

Scaled(name, from, scale) ==
    IF scale # 0
    THEN CDef(name, <<TName(from), TNum(FormatScale(scale)), TOp("*")>>)
    ELSE CDef(name, <<TName(from)>>)

NoneSerieBase(metrics, query, i) ==
    LET serie == query.Series[i]
        serieTemp == "serie" \o ToString(CountAt(query.Series, i))
        m == HandlerMetric(metrics, serie.Metric)
    IN  <<Def(serieTemp \o "-orig0", m.FilePath, m.Dataset),
          Scaled(serieTemp \o "-orig1", serieTemp \o "-orig0", serie.Scale),
          Scaled(serieTemp, serieTemp \o "-orig1", query.Scale)>>

NoneGraphPlan(metrics, query, percentiles) ==
    Concat([i \in 1..Len(query.Series) |->
               IF i \in Contributing(query.Series)
               THEN NoneSerieBase(metrics, query, i)
                    \o rrdSetGraph("serie" \o ToString(CountAt(query.Series, i)),
                                   query.Series[i].Name, percentiles)
               ELSE <<>>], 1)

NoneXportPlan(metrics, query) ==
    Concat([i \in 1..Len(query.Series) |->
               IF i \in Contributing(query.Series)
               THEN LET serieTemp == "serie" \o ToString(CountAt(query.Series, i))
                    IN  NoneSerieBase(metrics, query, i) \o <<XportDef(serieTemp, serieTemp)>>
               ELSE <<>>], 1)

\* series[serieTemp] = serieName
NoneSeries(query) ==
    LET C == Contributing(query.Series)
        idx(t) == CHOOSE i \in C : "serie" \o ToString(CountAt(query.Series, i)) = t
    IN  [t \in {"serie" \o ToString(CountAt(query.Series, i)) : i \in C} |->
            query.Series[idx(t)].Name]

GroupTemp(i) == "serie0" \o "-tmp" \o ToString(i - 1)

GroupDefs(metrics, query) ==
    Concat([i \in 1..Len(query.Series) |->
               IF i \in Contributing(query.Series)
               THEN LET m == HandlerMetric(metrics, query.Series[i].Metric)
                    IN  <<Def(GroupTemp(i), m.FilePath, m.Dataset)>>
               ELSE <<>>], 1)

\* the stack after the loop: the first contributing serie alone, each later
\* one followed by "+"
RECURSIVE GroupStack(_, _)
GroupStack(series, n) ==
    IF n = 0 THEN <<>>
    ELSE LET stack == GroupStack(series, n - 1)
         IN  IF n \notin Contributing(series) THEN stack
             ELSE IF Len(stack) = 0 THEN Append(stack, TName(GroupTemp(n)))
             ELSE stack \o <<TName(GroupTemp(n)), TOp("+")>>

GroupExpr(query) ==
    LET stack == GroupStack(query.Series, Len(query.Series))
    IN  IF query.Type = OperGroupTypeAvg
        THEN stack \o <<TInt(Len(query.Series)), TOp("/")>>
        ELSE stack

GroupTail(query) ==
    <<CDef("serie0" \o "-orig", GroupExpr(query)),
      Scaled("serie0", "serie0" \o "-orig", query.Scale)>>

GroupGraphPlan(metrics, query, percentiles) ==
    GroupDefs(metrics, query) \o GroupTail(query)
    \o rrdSetGraph("serie0", query.Name, percentiles)

GroupXportPlan(metrics, query) ==
    GroupDefs(metrics, query) \o GroupTail(query) \o <<XportDef("serie0", "serie0")>>

GroupSeries(query) == [t \in {"serie0"} |-> query.Name]

----------------------------------------------------------------------------
\* Storage engine (rrd.Grapher / rrd.Exporter), as far as the connector uses
\* it: every stored dataset is a constant series of RowCnt samples.

RowCnt == 2

StoredValue(file, ds) == IF ds = "a" THEN Rat(6, 1) ELSE Rat(12, 1)

ErrEngine(what) == Err("rrd error", what)

Pop(st, k) == SubSeq(st, 1, Len(st) - k)

Top(st, k) == st[Len(st) - k]

RECURSIVE EvalRPN(_, _, _, _)
EvalRPN(expr, i, st, env) ==
    IF i > Len(expr)
    THEN IF Len(st) = 1 THEN [ok |-> TRUE, v |-> st[1]] ELSE [ok |-> FALSE, v |-> NaN]
    ELSE LET tok == expr[i] IN
         IF tok.t = "name"
         THEN IF tok.v \in DOMAIN env
              THEN EvalRPN(expr, i + 1, Append(st, env[tok.v]), env)
              ELSE [ok |-> FALSE, v |-> NaN]
         ELSE IF tok.t = "num" THEN EvalRPN(expr, i + 1, Append(st, Rat(tok.v, FPrecision)), env)
         ELSE IF tok.t = "int" THEN EvalRPN(expr, i + 1, Append(st, Rat(tok.v, 1)), env)
         ELSE IF tok.v = "UN"
         THEN IF Len(st) < 1 THEN [ok |-> FALSE, v |-> NaN]
              ELSE EvalRPN(expr, i + 1,
                           Append(Pop(st, 1), IF Top(st, 0).d = 0 THEN Rat(1, 1) ELSE Rat(0, 1)),
                           env)
         ELSE IF tok.v = "IF"
         THEN IF Len(st) < 3 THEN [ok |-> FALSE, v |-> NaN]
              ELSE EvalRPN(expr, i + 1,
                           Append(Pop(st, 3),
                                  IF Top(st, 2).n # 0 THEN Top(st, 1) ELSE Top(st, 0)),
                           env)
         ELSE IF Len(st) < 2 THEN [ok |-> FALSE, v |-> NaN]
         ELSE LET a == Top(st, 1)
                  b == Top(st, 0)
                  r == IF tok.v = "+" THEN RatAdd(a, b)
                       ELSE IF tok.v = "*" THEN RatMul(a, b)
                       ELSE RatDiv(a, b)
              IN  EvalRPN(expr, i + 1, Append(Pop(st, 2), r), env)

\* Runs a plan: the named series it defines, the lines it prints and the
\* legends it exports; ok is false when the plan is malformed.
RECURSIVE EngineRun(_, _, _)
EngineRun(ops, i, acc) ==
    IF i > Len(ops) \/ ~acc.ok THEN acc
    ELSE LET o == ops[i] IN
         IF o.op = "Def"
         THEN EngineRun(ops, i + 1,
                        [acc EXCEPT !.env = MapPut(@, o.name, StoredValue(o.file, o.ds))])
         ELSE IF o.op = "CDef"
         THEN LET r == EvalRPN(o.expr, 1, <<>>, acc.env) IN
              EngineRun(ops, i + 1, [acc EXCEPT !.ok = r.ok, !.env = MapPut(@, o.name, r.v)])
         ELSE IF o.op = "VDef"
         THEN IF o.expr[1].v \in DOMAIN acc.env
              THEN EngineRun(ops, i + 1,
                             [acc EXCEPT !.env = MapPut(@, o.name, acc.env[o.expr[1].v])])
              ELSE [acc EXCEPT !.ok = FALSE]
         ELSE IF o.op = "Print"
         THEN IF o.name \in DOMAIN acc.env
              THEN EngineRun(ops, i + 1,
                             [acc EXCEPT !.prints = Append(@, [item |-> o.item, label |-> o.label,
                                                              value |-> RoundLf(acc.env[o.name])])])
              ELSE [acc EXCEPT !.ok = FALSE]
         ELSE IF o.name \in DOMAIN acc.env
              THEN EngineRun(ops, i + 1,
                             [acc EXCEPT !.legends = Append(@, o.legend),
                                         !.rows = Append(@, [r \in 1..RowCnt |-> acc.env[o.name]])])
              ELSE [acc EXCEPT !.ok = FALSE]

EngineStart == [ok |-> TRUE, env |-> EmptyMap, prints |-> <<>>, legends |-> <<>>, rows |-> <<>>]

\* xport.Xport(startTime, endTime, step)
Xport(ops, fails) ==
    LET run == EngineRun(ops, 1, EngineStart) IN
    IF fails THEN [err |-> ErrEngine("xport"), Legends |-> <<>>, rows |-> <<>>]
    ELSE IF ~run.ok THEN [err |-> ErrEngine("plan"), Legends |-> <<>>, rows |-> <<>>]
    ELSE [err |-> NoErr, Legends |-> run.legends, rows |-> run.rows]

\* graph.Graph(startTime, endTime)
Graph(ops, fails) ==
    LET run == EngineRun(ops, 1, EngineStart) IN
    IF fails THEN [err |-> ErrEngine("graph"), Prints |-> <<>>]
    ELSE IF ~run.ok THEN [err |-> ErrEngine("plan"), Prints |-> <<>>]
    ELSE [err |-> NoErr, Prints |-> run.prints]

----------------------------------------------------------------------------
\* rrdGetData, rrdParseInfo, GetPlots, GetValue

\* lines 412-419: one PlotResult per exported legend
RECURSIVE FillPlots(_, _, _, _)
FillPlots(data, series, i, result) ==
    IF i > Len(data.Legends) THEN result
    ELSE FillPlots(data, series, i + 1,
                   MapPut(result, series[data.Legends[i]],
                          [Plots |-> data.rows[i], Info |-> EmptyMap]))

RECURSIVE rrdParseInfo(_, _, _)
rrdParseInfo(prints, i, data) ==
    IF i > Len(prints) THEN data
    ELSE LET p == prints[i]
             cur == IF p.item \in DOMAIN data THEN data[p.item]
                    ELSE [Plots |-> <<>>, Info |-> EmptyMap]
         IN  rrdParseInfo(prints, i + 1,
                          MapPut(data, p.item, [cur EXCEPT !.Info = MapPut(@, p.label, p.value)]))

FailedNotNil(e, query, graph, xport, calls) ==
    [err |-> e, nil |-> FALSE, result |-> EmptyMap, query |-> query,
     graph |-> graph, xport |-> xport, calls |-> calls, panic |-> FALSE]

Failed(e, query, graph, xport, calls) ==
    [err |-> e, nil |-> TRUE, result |-> EmptyMap, query |-> query,
     graph |-> graph, xport |-> xport, calls |-> calls, panic |-> FALSE]

rrdGetData(metrics, query0, percentiles, infoOnly, xportFails, graphFails) ==
    IF CheckSeries(query0) # NoErr
    THEN Failed(CheckSeries(query0), query0, <<>>, <<>>, <<>>)
    ELSE
    LET query == NormalizeType(query0)
        grouped == query.Type \in {OperGroupTypeAvg, OperGroupTypeSum}
    IN
    IF query.Type # OperGroupTypeNone /\ ~grouped
    THEN Failed(Err("unknown operator type", ToString(query.Type)), query, <<>>, <<>>, <<>>)
    ELSE IF \E i \in Contributing(query.Series) :
                HandlerMetric(metrics, query.Series[i].Metric) = NilRRDMetric
    THEN [Failed(NoErr, query, <<>>, <<>>, <<>>) EXCEPT !.panic = TRUE]
    ELSE
    LET graph == IF grouped THEN GroupGraphPlan(metrics, query, percentiles)
                 ELSE NoneGraphPlan(metrics, query, percentiles)
        xport == IF infoOnly THEN <<>>
                 ELSE IF grouped THEN GroupXportPlan(metrics, query)
                 ELSE NoneXportPlan(metrics, query)
        series == IF grouped THEN GroupSeries(query) ELSE NoneSeries(query)
        data == Xport(xport, xportFails)
        graphInfo == Graph(graph, graphFails)
        calls == IF infoOnly THEN <<"Graph">> ELSE <<"Xport", "Graph">>
    IN
    IF ~infoOnly /\ data.err # NoErr THEN Failed(data.err, query, graph, xport, <<"Xport">>)
    ELSE IF graphInfo.err # NoErr THEN Failed(graphInfo.err, query, graph, xport, calls)
    ELSE [err |-> NoErr, nil |-> FALSE,
          result |-> rrdParseInfo(graphInfo.Prints, 1,
                                  IF infoOnly THEN EmptyMap
                                  ELSE FillPlots(data, series, 1, EmptyMap)),
          query |-> query, graph |-> graph, xport |-> xport, calls |-> calls,
          panic |-> FALSE]

GetPlotsResult(metrics, query, percentiles, xportFails, graphFails) ==
    rrdGetData(metrics, query, percentiles, FALSE, xportFails, graphFails)

GetValueResultExports(metrics, query, percentiles, graphFails) ==
    LET data == rrdGetData(metrics, query, percentiles, FALSE, FALSE, graphFails)
    IN  IF data.err # NoErr \/ data.panic THEN data
        ELSE [data EXCEPT !.result = [serieName \in DOMAIN data.result |->
                                         data.result[serieName].Info]]

GetValueResult(metrics, query, percentiles, graphFails) ==
    LET data == rrdGetData(metrics, query, percentiles, TRUE, FALSE, graphFails)
    IN  IF data.err # NoErr \/ data.panic THEN data
        ELSE [data EXCEPT !.result = [serieName \in DOMAIN data.result |->
                                         data.result[serieName].Info]]

----------------------------------------------------------------------------
\* Queries on a connector whose discovery has completed

\* The catalog after origin o1 (pattern source/metric) has discovered file
\* h1/cpu with datasets a and b.
QueryOrigins ==
    LET cfg == ConfigOf({"type", "path", "pattern"}, "rrd", PatSourceMetric)
        o == AddOriginResult(EmptyMap, "o1", cfg).origins["o1"]
        names == {MetricName("cpu", "a"), MetricName("cpu", "b")}
    IN  [n \in {"o1"} |->
            [o EXCEPT !.Sources = AppendMetric(AppendMetric(EmptyMap, "h1", MetricName("cpu", "a")),
                                               "h1", MetricName("cpu", "b")),
                      !.Connector.metrics =
                          [src \in {"h1"} |->
                              [m \in names |-> RRDMetric(m[2], "/data", <<"h1", "cpu">>)]],
                      !.inputChan = [made |-> TRUE, closed |-> 1],
                      !.consumer = "done"]]

OperTypes == {OperGroupTypeNone, OperGroupTypeAvg, OperGroupTypeSum, 3}

SerieScales == {0, 2 * ScaleUnit}

GroupScales == {0, 2 * ScaleUnit, 1}

\* No percentile, or 50, 95.5 and 99.999.
PercentileSets ==
    {<<>>, <<50 * FPrecision, 95 * FPrecision + FPrecision \div 2,
             99 * FPrecision + 999 * (FPrecision \div 1000)>>}

MetricRefs ==
    {NilMetric, GetMetric(QueryOrigins, "o1", "h1", MetricName("cpu", "a")),
     GetMetric(QueryOrigins, "o1", "h1", MetricName("cpu", "b"))}

SerieChoices == {[Metric |-> m, Scale |-> sc] : m \in MetricRefs, sc \in SerieScales}

MakeQuery(choice, type, scale) ==
    [Name |-> "grp",
     Series |-> [i \in 1..Len(choice) |->
                    [Name |-> "s" \o ToString(i), Metric |-> choice[i].Metric,
                     Scale |-> choice[i].Scale]],
     Type |-> type, Scale |-> scale]

\* A caller has a query call in hand; the catalog is the one left by a
\* completed discovery.
InitQuery ==
    /\ Origins = QueryOrigins
    /\ Updated = 1
    /\ clock = 1
    /\ update = IdleUpdate
    /\ walk = IdleWalk
    /\ logged = <<InfoLine("catalog update started"), InfoLine("catalog update completed")>>
    /\ op = [name |-> "Catalog.Update", returned |-> TRUE, err |-> NoErr]
    /\ \E n \in 0..MaxSeries :
         \E choice \in [1..n -> SerieChoices], type \in OperTypes, scale \in GroupScales,
            percentiles \in PercentileSets, fn \in {"GetPlots", "GetValue"},
            xf \in BOOLEAN, gf \in BOOLEAN :
            /\ xf => (fn = "GetPlots" /\ ~gf)
            /\ request = [fn |-> fn, query |-> MakeQuery(choice, type, scale),
                          percentiles |-> percentiles, xportFails |-> xf, graphFails |-> gf]
    /\ reply = NoReply

GetPlots ==
    /\ request.fn = "GetPlots"
    /\ reply = NoReply
    /\ reply' = GetPlotsResult(Origins["o1"].Connector.metrics, request.query,
                               request.percentiles, request.xportFails, request.graphFails)
    /\ UNCHANGED <<Origins, Updated, clock, update, walk, logged, op, request>>

GetValue ==
    /\ request.fn = "GetValue"
    /\ reply = NoReply
    /\ reply' = GetValueResult(Origins["o1"].Connector.metrics, request.query,
                               request.percentiles, request.graphFails)
    /\ UNCHANGED <<Origins, Updated, clock, update, walk, logged, op, request>>

NextQuery == GetPlots \/ GetValue

SpecQuery == InitQuery /\ [][NextQuery]_vars

----------------------------------------------------------------------------
\* Properties of the query engine

Replied == reply # NoReply

\* What the call in `request` returns for query q in place of its own.
ReplyFor(q) ==
    IF request.fn = "GetPlots"
    THEN GetPlotsResult(Origins["o1"].Connector.metrics, q, request.percentiles,
                        request.xportFails, request.graphFails)
    ELSE GetValueResult(Origins["o1"].Connector.metrics, q, request.percentiles,
                        request.graphFails)

\* C7: a query with exactly one series, whatever its Type, hands the storage
\* engine the same plan and returns the same result as the same query with
\* Type = None.
C7_SingleSerieAsNone ==
    (Replied /\ Len(request.query.Series) = 1) =>
        LET asNone == ReplyFor([request.query EXCEPT !.Type = OperGroupTypeNone])
        IN  /\ reply.graph = asNone.graph
            /\ reply.xport = asNone.xport
            /\ reply.calls = asNone.calls
            /\ reply.err = asNone.err
            /\ reply.nil = asNone.nil
            /\ reply.result = asNone.result

\* An Avg query on one series answered under the series' own name.
C7_Witness ==
    /\ Replied
    /\ request.fn = "GetPlots"
    /\ Len(request.query.Series) = 1
    /\ request.query.Type = OperGroupTypeAvg
    /\ reply.err = NoErr
    /\ DOMAIN reply.result = {"s1"}
    /\ Len(reply.xport) = 4

RECURSIVE RatSum(_, _)
RatSum(vals, i) == IF i > Len(vals) THEN Rat(0, 1) ELSE RatAdd(vals[i], RatSum(vals, i + 1))

\* The stored value of serie i of the request, for a contributing serie.
SerieValue(i) ==
    LET m == HandlerMetric(Origins["o1"].Connector.metrics, request.query.Series[i].Metric)
    IN  StoredValue(m.FilePath, m.Dataset)

\* Sum of the contributing series of the request.
ContributingSum ==
    LET series == request.query.Series
    IN  RatSum([i \in 1..Len(series) |->
                   IF i \in Contributing(series) THEN SerieValue(i) ELSE Rat(0, 1)], 1)

\* C8: for Type = Avg with at least two series the output series is the sum of
\* the contributing series divided by the number of contributing series
\* (no group scale applied).
C8_AvgOverContributing ==
    (/\ Replied
     /\ request.fn = "GetPlots"
     /\ request.query.Type = OperGroupTypeAvg
     /\ Len(request.query.Series) >= 2
     /\ request.query.Scale = 0
     /\ reply.err = NoErr) =>
        LET n == Cardinality(Contributing(request.query.Series))
            plots == reply.result[request.query.Name].Plots
        IN  \A r \in 1..Len(plots) : plots[r] = RatDiv(ContributingSum, Rat(n, 1))

\* C9: GetPlots and GetValue on a query with zero series return the error
\* "group has no series" and no result, and nothing has been asked of the
\* storage engine.
C9_EmptyGroupRejected ==
    (Replied /\ Len(request.query.Series) = 0) =>
        /\ reply.err = Err("group has no series", "")
        /\ reply.nil
        /\ reply.result = EmptyMap
        /\ reply.graph = <<>>
        /\ reply.xport = <<>>
        /\ reply.calls = <<>>

\* GetValue has answered an empty Avg group.
C9_Witness ==
    /\ Replied
    /\ request.fn = "GetValue"
    /\ Len(request.query.Series) = 0
    /\ request.query.Type = OperGroupTypeAvg
    /\ reply.err.msg = "group has no series"

\* The label the statistics carry for a percentile p: the whole number and
\* "th" when p has no fractional part, else p rounded to two decimals, written
\* with both of them, and "th".
LabelFor(p, label) ==
    IF p % FPrecision = 0
    THEN label = ToString(p \div FPrecision) \o "th"
    ELSE \E whole \in {p \div FPrecision, p \div FPrecision + 1}, d1 \in 0..9, d2 \in 0..9 :
            /\ label = ToString(whole) \o "." \o ToString(d1) \o ToString(d2) \o "th"
            /\ LET shown == (100 * whole + 10 * d1 + d2) * (FPrecision \div 100)
               IN  shown - p <= FPrecision \div 200 /\ p - shown <= FPrecision \div 200

\* The positions of the plan at which a percentile is computed.
PercentAt(plan) ==
    {i \in 1..Len(plan) : plan[i].op = "VDef" /\ plan[i].expr[Len(plan[i].expr)] = TOp("PERCENT")}

\* C12: every percentile of the plan is printed under the label of its value,
\* without decimals when it is whole ("50th") and with exactly two decimals
\* when it has a fractional part ("95.50th"); the statistics returned are
\* keyed by these labels.
C12_PercentileLabels ==
    Replied =>
        /\ \A i \in PercentAt(reply.graph) :
              LET p == reply.graph[i].expr[2].v
                  pr == reply.graph[i + 1]
              IN  /\ pr.op = "Print"
                  /\ pr.name = reply.graph[i].name
                  /\ LabelFor(p, pr.label)
                  /\ (reply.err = NoErr /\ ~reply.panic) =>
                        LET info == IF request.fn = "GetPlots" THEN reply.result[pr.item].Info
                                    ELSE reply.result[pr.item]
                        IN  pr.label \in DOMAIN info
        /\ (reply.graph # <<>>) =>
              {reply.graph[i].expr[2].v : i \in PercentAt(reply.graph)} =
                  {request.percentiles[k] : k \in 1..Len(request.percentiles)}

\* A GetValue answered with statistics under "50th", "95.50th" and "100.00th".
C12_Witness ==
    /\ Replied
    /\ request.fn = "GetValue"
    /\ reply.err = NoErr
    /\ "grp" \in DOMAIN reply.result
    /\ {"50th", "95.50th", "100.00th"} \subseteq DOMAIN reply.result["grp"]
    /\ Cardinality(DOMAIN reply.result["grp"]) = 7

KnownTypes == {OperGroupTypeNone, OperGroupTypeSum, OperGroupTypeAvg}

\* The call was refused for its operator: the error, no result, and nothing
\* asked of the storage engine.
UnknownTypeRefused ==
    /\ reply.err.msg = "unknown operator type"
    /\ reply.nil
    /\ reply.result = EmptyMap
    /\ reply.calls = <<>>

\* C15 as stated: every query with one or more series and a Type that is none
\* of None, Sum, Avg is refused with "unknown operator type" and no result.
C15_UnknownTypeAnyCount ==
    (Replied /\ Len(request.query.Series) >= 1 /\ request.query.Type \notin KnownTypes) =>
        UnknownTypeRefused

\* C15, amended: such a query is refused with "unknown operator type" and no
\* result when it has two or more series; with exactly one series its Type
\* counts as None and the call is not refused for its operator.
C15_UnknownTypeRejected ==
    (Replied /\ request.query.Type \notin KnownTypes) =>
        /\ Len(request.query.Series) >= 2 => UnknownTypeRefused
        /\ Len(request.query.Series) = 1 =>
              /\ reply.err.msg # "unknown operator type"
              /\ reply.query.Type = OperGroupTypeNone

\* A GetPlots with two series of known metrics and Type 3 was refused.
C15_Witness ==
    /\ Replied
    /\ request.fn = "GetPlots"
    /\ request.query.Type \notin KnownTypes
    /\ Len(request.query.Series) = 2
    /\ \A i \in 1..2 : request.query.Series[i].Metric # NilMetric
    /\ ~request.xportFails /\ ~request.graphFails
    /\ UnknownTypeRefused

\* The call got as far as the storage engine.
EngineAsked == Replied /\ reply.calls # <<>>

\* C16: GetValue never asks for an export and the PlotResults it is built
\* from have no Plots; the statistics are asked for in both modes (in GetPlots
\* after an export that did not fail); and GetValue returns one statistics map
\* for each output series the statistics call reports, holding what was
\* reported for it.
C16_InfoOnly ==
    /\ (Replied /\ request.fn = "GetValue") =>
          /\ reply.xport = <<>>
          /\ \A i \in 1..Len(reply.calls) : reply.calls[i] # "Xport"
          /\ LET data == rrdGetData(Origins["o1"].Connector.metrics, request.query,
                                    request.percentiles, TRUE, FALSE, request.graphFails)
             IN  \A n \in DOMAIN data.result : data.result[n].Plots = <<>>
    /\ EngineAsked =>
          \/ reply.calls[Len(reply.calls)] = "Graph"
          \/ request.fn = "GetPlots" /\ Xport(reply.xport, request.xportFails).err # NoErr
    /\ (EngineAsked /\ request.fn = "GetValue" /\ reply.err = NoErr) =>
          LET reported == Graph(reply.graph, FALSE).Prints
              of(n) == {i \in 1..Len(reported) : reported[i].item = n}
          IN  /\ DOMAIN reply.result = {reported[i].item : i \in 1..Len(reported)}
              /\ \A n \in DOMAIN reply.result :
                    /\ DOMAIN reply.result[n] = {reported[i].label : i \in of(n)}
                    /\ \A i \in of(n) : reply.result[n][reported[i].label] = reported[i].value

\* A GetValue on two series kept apart returned the statistics of both
\* without an export.
C16_Witness ==
    /\ Replied
    /\ request.fn = "GetValue"
    /\ reply.err = NoErr
    /\ reply.calls = <<"Graph">>
    /\ DOMAIN reply.result = {"s1", "s2"}
    /\ "avg" \in DOMAIN reply.result["s1"]

\* The output series the plan of the reply prints statistics for.
Outputs == {reply.graph[i].item : i \in {j \in 1..Len(reply.graph) : reply.graph[j].op = "Print"}}

\* The result holds every output series, each with all its statistics and,
\* for GetPlots, all its samples.
Complete ==
    /\ ~reply.nil
    /\ DOMAIN reply.result = Outputs
    /\ \A n \in Outputs :
          LET info == IF request.fn = "GetPlots" THEN reply.result[n].Info ELSE reply.result[n]
          IN  /\ {"min", "avg", "max", "last"} \subseteq DOMAIN info
              /\ Cardinality(DOMAIN info) = 4 + Len(request.percentiles)
              /\ request.fn = "GetPlots" => Len(reply.result[n].Plots) = RowCnt

\* C17: a query call returns a complete result, or an error and no result.
\* GetPlots asks for the export before the statistics; when the export fails
\* it returns that error without asking for the statistics, and when the
\* statistics fail it returns that error and a nil result although the samples
\* were exported.
C17_CompleteOrError ==
    Replied =>
        /\ reply.err # NoErr => (reply.nil /\ reply.result = EmptyMap)
        /\ reply.err = NoErr => Complete
        /\ request.fn = "GetPlots" => reply.calls \in {<<>>, <<"Xport">>, <<"Xport", "Graph">>}
        /\ (EngineAsked /\ request.xportFails) =>
              /\ reply.calls = <<"Xport">>
              /\ reply.err = ErrEngine("xport")
        /\ (EngineAsked /\ request.fn = "GetPlots" /\ request.graphFails
                /\ Xport(reply.xport, FALSE).err = NoErr) =>
              /\ reply.calls = <<"Xport", "Graph">>
              /\ reply.err = ErrEngine("graph")
              /\ reply.nil

\* The statistics of a GetPlots failed after the samples of its two series
\* had been exported.
C17_Witness ==
    /\ Replied
    /\ request.fn = "GetPlots"
    /\ request.graphFails
    /\ reply.calls = <<"Xport", "Graph">>
    /\ Len(Xport(reply.xport, FALSE).Legends) = 2
    /\ reply.err = ErrEngine("graph")
    /\ reply.nil

\* The factor a Scale stands for: itself, or 1 when it is 0.
Factor(scale) == IF scale = 0 THEN Rat(1, 1) ELSE Rat(scale, ScaleUnit)

\* The series definitions of a plan that are also in the export plan.
Expressions(plan) ==
    LET names == {reply.xport[i].name : i \in 1..Len(reply.xport)}
    IN  SelectSeq(plan, LAMBDA o : o.op \in {"Def", "CDef"} /\ o.name \in names)

\* C18: in a None query every output series is the stored series times the
\* factor of its serie's Scale times the factor of the query's Scale, a Scale
\* of 0 standing for 1; in Sum and Avg the output is the fold (for Avg, of
\* series that all contribute, divided by their number) times the factor of
\* the query's Scale; and the export plan defines its series by the same
\* expressions as the statistics plan.
C18_ScaleApplied ==
    (Replied /\ request.fn = "GetPlots" /\ reply.err = NoErr) =>
        LET query == reply.query
            g == Factor(query.Scale)
            C == Contributing(query.Series)
        IN  /\ query.Type = OperGroupTypeNone =>
                  \A i \in C :
                      LET plots == reply.result[query.Series[i].Name].Plots
                          s == Factor(query.Series[i].Scale)
                      IN  \A r \in 1..Len(plots) :
                              plots[r] = RatMul(RatMul(SerieValue(i), s), g)
            /\ query.Type = OperGroupTypeSum =>
                  LET plots == reply.result[query.Name].Plots
                  IN  \A r \in 1..Len(plots) : plots[r] = RatMul(ContributingSum, g)
            /\ (query.Type = OperGroupTypeAvg /\ Cardinality(C) = Len(query.Series)) =>
                  LET plots == reply.result[query.Name].Plots
                  IN  \A r \in 1..Len(plots) :
                          plots[r] = RatMul(RatDiv(ContributingSum, Rat(Cardinality(C), 1)), g)
            /\ Expressions(reply.graph) = Expressions(reply.xport)
            /\ Len(Expressions(reply.xport)) + Cardinality(DOMAIN reply.result) = Len(reply.xport)

\* The same statement for the queries whose Scale is 0 or has at most the six
\* decimals the plan is written with.
ScaleAppliedSixDecimals ==
    (request # NoRequest /\ request.query.Scale % (ScaleUnit \div FPrecision) = 0) =>
        C18_ScaleApplied

\* The positions of a plan that define a series or a value.
Defining(plan) == {i \in 1..Len(plan) : plan[i].op \in {"Def", "CDef", "VDef"}}

\* The series an expression names.
Operands(expr) == {expr[k].v : k \in {j \in 1..Len(expr) : expr[j].t = "name"}}

WellFormed(plan) ==
    /\ \A i \in 1..Len(plan) :
          LET earlier == {plan[j].name : j \in {k \in Defining(plan) : k < i}}
          IN  IF plan[i].op \in {"CDef", "VDef"}
              THEN Operands(plan[i].expr) # {} /\ Operands(plan[i].expr) \subseteq earlier
              ELSE plan[i].op \in {"Print", "XportDef"} => plan[i].name \in earlier
    /\ \A i \in Defining(plan), j \in Defining(plan) : plan[i].name = plan[j].name => i = j

\* C20: the plans handed to the storage engine for a query with at least one
\* series, whether or not its series have a Metric, are well-formed: every
\* derived expression has an operand series, names only series defined
\* earlier in the plan, and no name is defined twice.
C20_PlansWellFormed ==
    (EngineAsked /\ Len(request.query.Series) >= 1) =>
        /\ WellFormed(reply.graph)
        /\ WellFormed(reply.xport)

\* The same statement for the queries in which some serie has a Metric.
WellFormedWhenContributing ==
    (request # NoRequest /\ Contributing(request.query.Series) # {}) => C20_PlansWellFormed

----------------------------------------------------------------------------
\* Queries during a discovery

\* C19: at every moment, a discovery in progress included, every pair the
\* consumer has received and registered in the origin's tree has its entry in
\* the connector's private table, so that a query on a registered metric
\* finds its storage handle.
C19_RegisteredIsResolvable ==
    \A o \in DOMAIN Origins :
        \A e \in TreeEntries(Origins[o]) \cup
                  (IF walk.origin = o THEN {walk.received[i] : i \in 1..Len(walk.received)}
                   ELSE {}) :
            /\ e \in TableEntries(Origins[o])
            /\ HandlerMetric(Origins[o].Connector.metrics, GetMetric(Origins, o, e[1], e[2]))
                  # NilRRDMetric

\* The same statement outside the window between the send at line 226 and
\* the table write at line 227.
ResolvableOutsideWindow == walk.pc # "record" => C19_RegisteredIsResolvable
====
